---------------------------- MODULE Spec2Model ----------------------------
(***************************************************************************)
(* A model of hicrep-wistan: the command composer format_hicrep and the    *)
(* cli group callback of hicrep_wistan/__main__.py, and the score reducer  *)
(* of hicrep_wistan/scc_scores.py and hicrep_wistan/scc_mean.py.           *)
(*                                                                         *)
(* Python str values are TLA+ strings; TLC evaluates Len, \o and SubSeq on *)
(* them, so the composed command lines and the raw score text are the very *)
(* strings the program builds and reads.                                   *)
(***************************************************************************)
EXTENDS Integers, Sequences, FiniteSets, TLC

VARIABLES
    \* one call of format_hicrep
    hicrep_args, hicrep_out, read, process, composed, called,
    \* one run of a standalone reducer stage (scc_scores / scc_mean)
    raw, stage, stdout, raised,
    \* one invocation of the cli group
    opts, subcommand, pc, cmd, result, ctx_obj, echoed, consumed, failure

composeVars == <<hicrep_args, hicrep_out, read, process, composed, called>>
reducerVars == <<raw, stage, stdout, raised>>
cliVars == <<opts, subcommand, pc, cmd, result, ctx_obj, echoed, consumed, failure>>
vars == <<composeVars, reducerVars, cliVars>>

(***************************************************************************)
(* Bounds of the input sets.                                               *)
(***************************************************************************)
MaxPieces == 2
MaxTextPieces == 4

\* Python's None: a value different from every str the inputs range over.
None == "<None>"

(***************************************************************************)
(* str helpers.                                                            *)
(***************************************************************************)
\* sep.join(parts)
RECURSIVE Join(_, _)
Join(parts, sep) ==
    IF Len(parts) = 0 THEN ""
    ELSE IF Len(parts) = 1 THEN parts[1]
    ELSE parts[1] \o sep \o Join(Tail(parts), sep)

\* the strings made of at most n pieces of P, concatenated
RECURSIVE Strs(_, _)
Strs(P, n) ==
    IF n = 0 THEN {""}
    ELSE LET shorter == Strs(P, n - 1)
         IN  shorter \cup {s \o p : s \in shorter, p \in P}

\* the positions at which sub occurs in s
Occurrences(sub, s) ==
    {i \in 1..(Len(s) - Len(sub) + 1) : SubSeq(s, i, i + Len(sub) - 1) = sub}

Count(sub, s) == Cardinality(Occurrences(sub, s))

StartsWith(s, prefix) ==
    Len(prefix) <= Len(s) /\ SubSeq(s, 1, Len(prefix)) = prefix

EndsWith(s, suffix) ==
    Len(suffix) <= Len(s) /\ SubSeq(s, Len(s) - Len(suffix) + 1, Len(s)) = suffix

(***************************************************************************)
(* format_hicrep (__main__.py:4-19).                                       *)
(***************************************************************************)
\* a slip in the literal: the row placeholder twice, the column one missing
hicrep_start_row_twice(out) == Join(<<"hicrep {1} {1}", out>>, " ")

hicrep_start(out) == Join(<<"hicrep {1} {2}", out>>, " ")

silencer == " 2> /dev/null"

\* the read-back emitted whatever the flag
read_cmd_always(out, rd) == "; cat " \o out

read_cmd(out, rd) == IF rd THEN "; cat " \o out ELSE ""

\* the two reserved tokens mapped to each other's stage
resolve_process_swapped(proc) ==
    IF proc = None THEN ""
    ELSE IF proc = "scc-mean" THEN "| python -m vs_hicrep.scc_scores"
    ELSE IF proc = "scc-scores" THEN "| python -m vs_hicrep.scc_mean"
    ELSE IF proc # "" THEN "| " \o proc
    ELSE proc

resolve_process(proc) ==
    IF proc = None THEN ""
    ELSE IF proc = "scc-mean" THEN "| python -m vs_hicrep.scc_mean"
    ELSE IF proc = "scc-scores" THEN "| python -m vs_hicrep.scc_scores"
    ELSE IF proc # "" THEN "| " \o proc
    ELSE proc

\* the guard of lines 5-6 left out
format_hicrep_no_null_check(args, out, rd, proc) ==
    Join(<<hicrep_start(out), args, silencer, read_cmd(out, rd),
           resolve_process(proc)>>, " ")

format_hicrep(args, out, rd, proc) ==
    IF args = None THEN ""
    ELSE Join(<<hicrep_start(out), args, silencer, read_cmd(out, rd),
                resolve_process(proc)>>, " ")

(***************************************************************************)
(* The arguments a call of format_hicrep may be given.                     *)
(***************************************************************************)
DefaultHicrep == "--h 1 --binSize 500000 --dBPMax 1000000"
DefaultHicrepOut == "scc/{3}_{4}.txt"

ArgPieces == {"--h 1", " {1}", " {2}"}
OutPieces == {"scc/", "{1}", "{2}"}
ProcPieces == {"wc -l", " {1}"}

ArgValues == {None, DefaultHicrep} \cup Strs(ArgPieces, MaxPieces)
OutValues == {DefaultHicrepOut} \cup Strs(OutPieces, MaxPieces)
ProcessValues ==
    {None, "scc-mean", "scc-scores", "reduce-to-mean", "list-scores"}
        \cup Strs(ProcPieces, MaxPieces)

ComposeIdle ==
    /\ hicrep_args = None /\ hicrep_out = "" /\ read = FALSE /\ process = None
    /\ composed = "" /\ called = FALSE

ReducerIdle ==
    /\ raw = "" /\ stage = "idle" /\ stdout = <<>> /\ raised = None

CliIdle ==
    /\ opts = <<>> /\ subcommand = <<>> /\ pc = "idle" /\ cmd = <<>>
    /\ result = None /\ ctx_obj = <<>> /\ echoed = <<>> /\ consumed = <<>>
    /\ failure = None

InitCompose ==
    /\ hicrep_args \in ArgValues
    /\ hicrep_out \in OutValues
    /\ read \in BOOLEAN
    /\ process \in ProcessValues
    /\ composed = ""
    /\ called = FALSE
    /\ ReducerIdle
    /\ CliIdle

\* the caller takes the value format_hicrep returns
Compose ==
    /\ ~called
    /\ composed' = format_hicrep(hicrep_args, hicrep_out, read, process)
    /\ called' = TRUE
    /\ UNCHANGED <<hicrep_args, hicrep_out, read, process>>
    /\ UNCHANGED <<reducerVars, cliVars>>

NextCompose == Compose

SpecCompose == InitCompose /\ [][NextCompose]_vars

(***************************************************************************)
(* Claims about format_hicrep, checked under SpecCompose.                  *)
(***************************************************************************)
Returned == called /\ hicrep_args # None

\* C1: called with parameters = None, format_hicrep returns exactly the empty
\* string, whatever the output template, the read flag and the post-process.
C1_NullParametersGiveEmpty ==
    (called /\ hicrep_args = None) => composed = ""

C1_Witness ==
    /\ called /\ hicrep_args = None
    /\ hicrep_out # "" /\ read /\ process \notin {None, ""}
    /\ composed = ""

\* The text of the returned string that follows the tool invocation, the
\* parameters and the stderr-suppression directive.
AfterSilencer(s, out, args) ==
    LET head == "hicrep {1} {2} " \o out \o " " \o args \o " " \o " 2> /dev/null"
    IN  SubSeq(s, Len(head) + 1, Len(s))

\* C2: for non-null parameters the returned string is, in this order, the tool
\* invocation with {1}, {2} and the output template, the parameters, the
\* stderr-suppression directive, the read-back of the output path iff read is
\* set, and a pipe stage iff the post-process is non-empty; a None post-process
\* and an empty one give the same string, with no pipe stage.
C2_FixedOrder ==
    Returned =>
        LET head == "hicrep {1} {2} " \o hicrep_out \o " " \o hicrep_args
                        \o " " \o " 2> /dev/null"
            rest == AfterSilencer(composed, hicrep_out, hicrep_args)
            readback == "; cat " \o hicrep_out
            afterRead == IF read THEN SubSeq(rest, Len(readback) + 2, Len(rest))
                         ELSE SubSeq(rest, 2, Len(rest))
        IN  /\ StartsWith(composed, head)
            /\ StartsWith(rest, " ")
            /\ read => StartsWith(rest, " " \o readback \o " ")
            /\ ~read => StartsWith(rest, "  ")
            /\ process \in {None, ""} => afterRead = " "
            /\ process \notin {None, ""} => StartsWith(afterRead, " | ")
            /\ process \in {None, ""} =>
                   /\ composed = format_hicrep(hicrep_args, hicrep_out, read, None)
                   /\ composed = format_hicrep(hicrep_args, hicrep_out, read, "")

C2_Witness ==
    /\ Returned /\ read /\ process = "wc -l" /\ hicrep_out = DefaultHicrepOut
    /\ composed = "hicrep {1} {2} scc/{3}_{4}.txt --h 1  2> /dev/null "
                      \o "; cat scc/{3}_{4}.txt | wc -l"

MeanStage == "| python -m vs_hicrep.scc_mean"
ScoresStage == "| python -m vs_hicrep.scc_scores"

\* C3 as stated: the token "reduce-to-mean" gives the summary-statistic stage,
\* the token "list-scores" the score-listing stage, and every other non-empty
\* post-process is appended verbatim after a pipe.
C3_AsStated ==
    Returned =>
        /\ process = "reduce-to-mean" => EndsWith(composed, " " \o MeanStage)
        /\ process = "list-scores" => EndsWith(composed, " " \o ScoresStage)
        /\ process \notin {None, "", "reduce-to-mean", "list-scores"} =>
               EndsWith(composed, " | " \o process)

\* C3 (amended): the reserved tokens are "scc-mean" and "scc-scores": they give
\* the summary-statistic stage and the score-listing stage; every other
\* non-empty post-process, "reduce-to-mean" and "list-scores" included, is
\* appended verbatim after a pipe.
C3_ReservedTokens ==
    Returned =>
        LET rest == AfterSilencer(composed, hicrep_out, hicrep_args)
            stage_ == IF read
                      THEN SubSeq(rest, Len("; cat " \o hicrep_out) + 3, Len(rest))
                      ELSE SubSeq(rest, 3, Len(rest))
        IN  /\ process = "scc-mean" => stage_ = MeanStage
            /\ process = "scc-scores" => stage_ = ScoresStage
            /\ process \notin {None, "", "scc-mean", "scc-scores"} =>
                   stage_ = "| " \o process

C3_Witness ==
    /\ Returned /\ process = "scc-mean" /\ ~read /\ hicrep_args = "--h 1"
    /\ hicrep_out = "scc/"
    /\ composed = "hicrep {1} {2} scc/ --h 1  2> /dev/null  "
                      \o "| python -m vs_hicrep.scc_mean"

\* C4 as stated: for non-null parameters the returned string is non-empty and
\* holds {1} exactly once and {2} exactly once, also when the output template
\* uses them and read-back is on.
C4_AsStated ==
    Returned =>
        /\ composed # ""
        /\ Count("{1}", composed) = 1
        /\ Count("{2}", composed) = 1

InputCount(ph) ==
    Count(ph, hicrep_args)
        + Count(ph, hicrep_out) * (IF read THEN 2 ELSE 1)
        + (IF process = None THEN 0 ELSE Count(ph, process))

\* C4 (amended): for non-null parameters the returned string is non-empty and
\* holds {1} and {2} at least once each: once for the tool invocation, plus
\* every occurrence in the parameters and the post-process, plus every
\* occurrence in the output template, counted twice when read-back is on; so
\* exactly once each when none of the three arguments holds the placeholder.
C4_PlaceholdersKept ==
    Returned =>
        /\ composed # ""
        /\ \A ph \in {"{1}", "{2}"} :
              /\ Count(ph, composed) >= 1
              /\ Count(ph, composed) = 1 + InputCount(ph)

C4_Witness ==
    /\ Returned /\ read /\ hicrep_out = "{1}{2}" /\ hicrep_args = "--h 1"
    /\ process = None
    /\ Count("{1}", composed) = 3
    /\ Count("{2}", composed) = 3

(***************************************************************************)
(* The score reducer: scc_scores.py and scc_mean.py.                       *)
(*                                                                         *)
(* A float is the record [kind, sign, m, e]: kind "num" is the decimal     *)
(* sign * m * 10^e with m free of trailing zeros (so equal numbers are     *)
(* equal records), kind "inf" and "nan" are the non-finite values, and     *)
(* kind "ValueError" stands for float() raising instead of returning.      *)
(* The literals within the bounds are short: each is well inside the range *)
(* and the precision of a binary64, so none rounds onto another.           *)
(***************************************************************************)
Digits == {"0", "1", "2", "3", "4", "5", "6", "7", "8", "9"}
Whitespace == {" ", "\t", "\n", "\r", "\f"}

At(s, i) == SubSeq(s, i, i)

DigitVal(c) ==
    CASE c = "0" -> 0 [] c = "1" -> 1 [] c = "2" -> 2 [] c = "3" -> 3
      [] c = "4" -> 4 [] c = "5" -> 5 [] c = "6" -> 6 [] c = "7" -> 7
      [] c = "8" -> 8 [] c = "9" -> 9

IsDigits(s) == \A i \in 1..Len(s) : At(s, i) \in Digits

\* int() of a string of digits; the empty string counts 0
RECURSIVE IntOf(_)
IntOf(s) ==
    IF Len(s) = 0 THEN 0
    ELSE 10 * IntOf(SubSeq(s, 1, Len(s) - 1)) + DigitVal(At(s, Len(s)))

\* the first position of s holding a character of C, 0 when there is none
FirstPos(C, s) ==
    LET hits == {i \in 1..Len(s) : At(s, i) \in C}
    IN  IF hits = {} THEN 0 ELSE CHOOSE i \in hits : \A j \in hits : i <= j

\* str.strip(): surrounding whitespace removed
Strip(s) ==
    LET solid == {i \in 1..Len(s) : At(s, i) \notin Whitespace}
    IN  IF solid = {} THEN ""
        ELSE SubSeq(s, CHOOSE i \in solid : \A j \in solid : i <= j,
                       CHOOSE i \in solid : \A j \in solid : i >= j)

LowerChar(c) ==
    CASE c = "A" -> "a" [] c = "F" -> "f" [] c = "I" -> "i" [] c = "N" -> "n"
      [] c = "T" -> "t" [] c = "Y" -> "y" [] c = "E" -> "e" [] OTHER -> c

RECURSIVE Lower(_)
Lower(s) == IF Len(s) = 0 THEN "" ELSE LowerChar(At(s, 1)) \o Lower(Tail(s))

\* float() takes an underscore only between two digits
UnderscoresOk(s) ==
    \A i \in 1..Len(s) :
        At(s, i) = "_" =>
            /\ 1 < i /\ i < Len(s)
            /\ At(s, i - 1) \in Digits
            /\ At(s, i + 1) \in Digits

RECURSIVE DropUnderscores(_)
DropUnderscores(s) ==
    IF Len(s) = 0 THEN ""
    ELSE (IF At(s, 1) = "_" THEN "" ELSE At(s, 1)) \o DropUnderscores(Tail(s))

RECURSIVE Normal(_, _)
Normal(m, e) ==
    IF m = 0 THEN <<0, 0>>
    ELSE IF m % 10 = 0 THEN Normal(m \div 10, e + 1)
    ELSE <<m, e>>

ValueError == [kind |-> "ValueError", sign |-> 1, m |-> 0, e |-> 0]
Inf(sg) == [kind |-> "inf", sign |-> sg, m |-> 0, e |-> 0]
NaN(sg) == [kind |-> "nan", sign |-> sg, m |-> 0, e |-> 0]
Num(sg, m, e) ==
    LET n == Normal(m, e) IN [kind |-> "num", sign |-> sg, m |-> n[1], e |-> n[2]]

\* a decimal literal without sign: digits, optional point, optional exponent
ParseDecimal(sg, s) ==
    LET ePos == FirstPos({"e", "E"}, s)
        mant == IF ePos = 0 THEN s ELSE SubSeq(s, 1, ePos - 1)
        expo == IF ePos = 0 THEN "" ELSE SubSeq(s, ePos + 1, Len(s))
        dot  == FirstPos({"."}, mant)
        ip   == IF dot = 0 THEN mant ELSE SubSeq(mant, 1, dot - 1)
        fp   == IF dot = 0 THEN "" ELSE SubSeq(mant, dot + 1, Len(mant))
        eNeg == Len(expo) > 0 /\ At(expo, 1) = "-"
        eDig == IF Len(expo) > 0 /\ At(expo, 1) \in {"+", "-"}
                THEN Tail(expo) ELSE expo
        mantOk == IsDigits(ip) /\ IsDigits(fp) /\ Len(ip) + Len(fp) >= 1
        expOk  == ePos = 0 \/ (Len(eDig) >= 1 /\ IsDigits(eDig))
    IN  IF mantOk /\ expOk
        THEN Num(sg, IntOf(ip \o fp),
                 (IF eNeg THEN 0 - IntOf(eDig) ELSE IntOf(eDig)) - Len(fp))
        ELSE ValueError

\* float(line) of scc_scores.py:11, for a str
float_(line) ==
    LET t == Strip(line)
        u == DropUnderscores(t)
        signed == Len(u) > 0 /\ At(u, 1) \in {"+", "-"}
        sg == IF Len(u) > 0 /\ At(u, 1) = "-" THEN 0 - 1 ELSE 1
        body == IF signed THEN Tail(u) ELSE u
        word == Lower(body)
    IN  IF ~UnderscoresOk(t) THEN ValueError
        ELSE IF word \in {"inf", "infinity"} THEN Inf(sg)
        ELSE IF word = "nan" THEN NaN(sg)
        ELSE ParseDecimal(sg, body)

\* str.split('\n')
RECURSIVE Split(_)
Split(s) ==
    LET nl == FirstPos({"\n"}, s)
    IN  IF nl = 0 THEN <<s>>
        ELSE <<SubSeq(s, 1, nl - 1)>> \o Split(SubSeq(s, nl + 1, Len(s)))

\* the loop of get_scc_scores over the lines still to read
RECURSIVE ScoresOf(_, _)
ScoresOf(lines, scc_scores) ==
    IF Len(lines) = 0 THEN scc_scores
    ELSE LET x == float_(Head(lines))
         IN  IF x = ValueError
             THEN ScoresOf(Tail(lines), scc_scores)
             ELSE ScoresOf(Tail(lines), Append(scc_scores, x))

\* the loop leaving at the first line float() rejects (break for continue)
RECURSIVE ScoresUntilError(_, _)
ScoresUntilError(lines, scc_scores) ==
    IF Len(lines) = 0 THEN scc_scores
    ELSE LET x == float_(Head(lines))
         IN  IF x = ValueError THEN scc_scores
             ELSE ScoresUntilError(Tail(lines), Append(scc_scores, x))

get_scc_scores_break(raw_hicrep_output) ==
    ScoresUntilError(Split(raw_hicrep_output), <<>>)

\* the loop reading each line without its surrounding whitespace removed
RECURSIVE ScoresUnstripped(_, _)
ScoresUnstripped(lines, scc_scores) ==
    IF Len(lines) = 0 THEN scc_scores
    ELSE LET x == IF Strip(Head(lines)) = Head(lines)
                  THEN float_(Head(lines)) ELSE ValueError
         IN  IF x = ValueError
             THEN ScoresUnstripped(Tail(lines), scc_scores)
             ELSE ScoresUnstripped(Tail(lines), Append(scc_scores, x))

get_scc_scores_unstripped(raw_hicrep_output) ==
    ScoresUnstripped(Split(raw_hicrep_output), <<>>)

get_scc_scores(raw_hicrep_output) == ScoresOf(Split(raw_hicrep_output), <<>>)

(***************************************************************************)
(* statistics.mean as scc_mean.py:9 calls it.  Like statistics._sum, the   *)
(* total is kept exactly: partials maps each decimal exponent to the sum   *)
(* of the signed mantissas of the finite values that have it; non-finite   *)
(* values are summed as floats and decide the total when there are any.    *)
(***************************************************************************)
StatisticsError == [kind |-> "StatisticsError", sign |-> 1, m |-> 0, e |-> 0]

RECURSIVE SumMantissas(_, _)
SumMantissas(data, e) ==
    IF Len(data) = 0 THEN 0
    ELSE (IF Head(data).kind = "num" /\ Head(data).e = e
          THEN Head(data).sign * Head(data).m ELSE 0)
             + SumMantissas(Tail(data), e)

Partials(data) ==
    LET exps == {data[i].e : i \in {j \in 1..Len(data) : data[j].kind = "num"}}
    IN  [e \in exps |-> SumMantissas(data, e)]

\* the float sum of the non-finite values of data
NonFiniteTotal(data) ==
    LET kinds == {<<data[i].kind, data[i].sign>> : i \in 1..Len(data)}
    IN  IF \E k \in kinds : k[1] = "nan" THEN NaN(1)
        ELSE IF <<"inf", 1>> \in kinds /\ <<"inf", 0 - 1>> \in kinds THEN NaN(1)
        ELSE IF <<"inf", 1>> \in kinds THEN Inf(1)
        ELSE Inf(0 - 1)

\* on an empty sequence the value 0 instead of the error
mean_zero_default(data) ==
    IF Len(data) < 1 THEN Num(1, 0, 0)
    ELSE IF \E i \in 1..Len(data) : data[i].kind # "num"
    THEN NonFiniteTotal(data)
    ELSE [kind |-> "mean", total |-> Partials(data), n |-> Len(data)]

mean(data) ==
    IF Len(data) < 1 THEN StatisticsError
    ELSE IF \E i \in 1..Len(data) : data[i].kind # "num"
    THEN NonFiniteTotal(data)
    ELSE [kind |-> "mean", total |-> Partials(data), n |-> Len(data)]

(***************************************************************************)
(* The standalone stages: stdin holds raw, and each stage runs once.       *)
(***************************************************************************)
TextPieces == {"1", ".", "e", "-", " ", "\n", "_", "NaN", "inf", "inity"}

InitReducer ==
    /\ raw \in Strs(TextPieces, MaxTextPieces)
    /\ stage = "idle"
    /\ stdout = <<>>
    /\ raised = None
    /\ ComposeIdle
    /\ CliIdle

\* python -m ...scc_scores (scc_scores.py:16-17)
RunSccScores ==
    /\ stage = "idle"
    /\ stage' = "scc_scores"
    /\ stdout' = Append(stdout, get_scc_scores(raw))
    /\ UNCHANGED <<raw, raised>>
    /\ UNCHANGED <<composeVars, cliVars>>

\* python -m ...scc_mean (scc_mean.py:8-9)
RunSccMean ==
    /\ stage = "idle"
    /\ stage' = "scc_mean"
    /\ LET value == mean(get_scc_scores(raw))
       IN  IF value = StatisticsError
           THEN raised' = "StatisticsError" /\ stdout' = stdout
           ELSE raised' = raised /\ stdout' = Append(stdout, value)
    /\ UNCHANGED raw
    /\ UNCHANGED <<composeVars, cliVars>>

NextReducer == RunSccScores \/ RunSccMean

SpecReducer == InitReducer /\ [][NextReducer]_vars

(***************************************************************************)
(* Claims about the score reducer, checked under SpecReducer.              *)
(***************************************************************************)
\* the k-th smallest element of a set of numbers
Nth(S, k) == CHOOSE i \in S : Cardinality({j \in S : j <= i}) = k

\* the newline-separated lines of a text: what lies between two successive
\* newlines, the start and the end of the text counting as newlines
LinesOf(text) ==
    LET nls == Occurrences("\n", text)
        edge(k) == IF k = 0 THEN 0
                   ELSE IF k > Cardinality(nls) THEN Len(text) + 1
                   ELSE Nth(nls, k)
    IN  [k \in 1..(Cardinality(nls) + 1) |->
            SubSeq(text, edge(k - 1) + 1, edge(k) - 1)]

\* the lines that Keep accepts, in their order of appearance, one per line
KeptLines(lines, Keep(_)) ==
    LET idx == {i \in 1..Len(lines) : Keep(lines[i])}
    IN  [k \in 1..Cardinality(idx) |-> lines[Nth(idx, k)]]

ParsesAsNumber(line) == float_(line) # ValueError

Listed == stage = "scc_scores"

\* C5: for every text, get_scc_scores raises nothing and returns exactly the
\* values of the newline-separated lines that parse as numbers, in their order
\* of appearance, one element per parsing line (duplicates kept), every other
\* line dropped; for the empty text it returns the empty list.
C5_ExtractKeepsParsingLines ==
    Listed =>
        LET kept == KeptLines(LinesOf(raw), ParsesAsNumber)
        IN  /\ raised = None
            /\ Len(stdout) = 1
            /\ Len(stdout[1]) = Len(kept)
            /\ \A k \in 1..Len(kept) : stdout[1][k] = float_(kept[k])
            /\ raw = "" => stdout[1] = <<>>

C5_Witness ==
    /\ Listed /\ raw = "1\n\n1"
    /\ stdout = <<(<<Num(1, 1, 0), Num(1, 1, 0)>>)>>

\* a run of digits, single underscores allowed between two digits
DigitGroup(s) ==
    \/ s = ""
    \/ /\ \A i \in 1..Len(s) : At(s, i) \in Digits \cup {"_"}
       /\ At(s, 1) \in Digits
       /\ At(s, Len(s)) \in Digits
       /\ \A i \in 1..(Len(s) - 1) : ~(At(s, i) = "_" /\ At(s, i + 1) = "_")

Unsigned(s) == IF Len(s) > 0 /\ At(s, 1) \in {"+", "-"} THEN Tail(s) ELSE s

\* digits, optional decimal point, optional exponent; underscores allowed or not
Numeral(s, grouped) ==
    LET Run(t) == IF grouped THEN DigitGroup(t) ELSE IsDigits(t)
    IN  \E p \in 0..Len(s) : \E d \in 0..p :
            LET ip == SubSeq(s, 1, d)
                fr == SubSeq(s, d + 1, p)
                ex == SubSeq(s, p + 1, Len(s))
            IN  /\ Run(ip)
                /\ fr = "" \/ (At(fr, 1) = "." /\ Run(Tail(fr)))
                /\ \E i \in 1..p : At(s, i) \in Digits
                /\ \/ ex = ""
                   \/ /\ At(ex, 1) \in {"e", "E"}
                      /\ Unsigned(Tail(ex)) # ""
                      /\ Run(Unsigned(Tail(ex)))

\* the literal form of the claim: optional sign, digits, optional decimal
\* point, optional exponent, and nothing else
StrictLiteral(line) == Numeral(Unsigned(line), FALSE)

\* what float() accepts: surrounding whitespace, then an optional sign, then
\* either a numeral (underscores allowed between digits) or one of the words
\* nan, inf, infinity in any case
AcceptedLiteral(line) ==
    \E i \in 1..Len(line) : \E j \in i..Len(line) :
        /\ \A k \in 1..Len(line) : (k < i \/ k > j) => At(line, k) \in Whitespace
        /\ At(line, i) \notin Whitespace
        /\ At(line, j) \notin Whitespace
        /\ LET body == Unsigned(SubSeq(line, i, j))
           IN  \/ Lower(body) \in {"nan", "inf", "infinity"}
               \/ Numeral(body, TRUE)

\* C6 as stated: a line is kept iff it is an optional sign, digits, an optional
\* decimal point and an optional exponent; a number with whitespace around it
\* and the words nan, inf and infinity are dropped like any other line.
C6_AsStated ==
    Listed =>
        LET kept == KeptLines(LinesOf(raw), StrictLiteral)
        IN  /\ Len(stdout[1]) = Len(kept)
            /\ \A k \in 1..Len(kept) : stdout[1][k] = float_(kept[k])

\* C6 (amended): a line is kept iff float() accepts it: after its surrounding
\* whitespace is removed it is an optional sign followed by either digits with
\* an optional decimal point and an optional exponent (single underscores
\* allowed between digits) or one of the words nan, inf, infinity in any case;
\* empty lines, whitespace-only lines and every other line are dropped.
C6_KeepsWhatFloatAccepts ==
    Listed =>
        LET lines == LinesOf(raw)
            kept == KeptLines(lines, AcceptedLiteral)
        IN  /\ Len(stdout[1]) = Len(kept)
            /\ \A k \in 1..Len(kept) : stdout[1][k] = float_(kept[k])
            /\ \A i \in 1..Len(lines) :
                   (lines[i] = "" \/ Strip(lines[i]) = "") => ~AcceptedLiteral(lines[i])

C6_Witness ==
    /\ Listed /\ raw = " 1\nNaN"
    /\ stdout = <<(<<Num(1, 1, 0), NaN(1)>>)>>

Summarized == stage = "scc_mean"

\* C7: the summary stage raises iff the sequence it summarizes is empty: with
\* one numeric line or more it writes the arithmetic mean and raises nothing;
\* with none the error reaches the caller and nothing is written, no default
\* value such as zero either.
C7_MeanRaisesIffEmpty ==
    Summarized =>
        LET lines == LinesOf(raw)
            kept == KeptLines(lines, ParsesAsNumber)
            vals == [k \in 1..Len(kept) |-> float_(kept[k])]
        IN  /\ raised \in {None, "StatisticsError"}
            /\ raised = "StatisticsError" <=> Len(kept) = 0
            /\ raised = "StatisticsError" => stdout = <<>>
            /\ raised = None =>
                   /\ Len(stdout) = 1
                   /\ stdout[1] # StatisticsError
                   /\ (\A k \in 1..Len(vals) : vals[k].kind = "num") =>
                          /\ stdout[1].kind = "mean"
                          /\ stdout[1].n = Len(vals)
                          /\ \A k \in 1..Len(vals) :
                                 (\A l \in 1..Len(vals) : vals[l] = vals[k]) =>
                                     stdout[1].total =
                                         [e \in {vals[k].e} |->
                                             Len(vals) * vals[k].sign * vals[k].m]
                   /\ (\E k \in 1..Len(vals) : vals[k].kind # "num") =>
                          stdout[1].kind \in {"nan", "inf"}

C7_Witness ==
    /\ Summarized /\ raw = "e\n "
    /\ raised = "StatisticsError" /\ stdout = <<>>

(***************************************************************************)
(* One invocation of the cli group (__main__.py:22-146), started as        *)
(* cli(obj={}).  opts holds the parsed options, subcommand the command     *)
(* path given after them: <<>>, <<"to">>, <<"to", "markdown">> or          *)
(* <<"to", "notebook">>.  click sets ctx.invoked_subcommand, runs the      *)
(* group callback, and only then makes the context of the subcommand and   *)
(* invokes it; the contexts of `to` and of its commands share ctx.obj.     *)
(* Every run(..., check=True) either returns or raises CalledProcessError, *)
(* which ends the invocation; failure names the command that failed.       *)
(***************************************************************************)
DefaultRow == "pathlib-cli prefix {1}"
DefaultCol == "pathlib-cli prefix {2}"

\* what the dispatcher may write to its standard output
DispatcherOutputs == {"", "result: 0.9"}

CliOptions ==
    [hicrep : {DefaultHicrep, ""},
     hicrep_md : {None, "", "--h 2"},
     hicrep_slt : {None, "", "--h 3"},
     row : {DefaultRow},
     col : {DefaultCol},
     hicrep_out : {DefaultHicrepOut, "{1}_{2}.txt"},
     read : BOOLEAN,
     hicrep_process : {"scc-mean", ""},
     md_process : {"scc-mean"},
     slt_process : {"scc-scores"},
     mkdir : BOOLEAN,
     dryrun : BOOLEAN]

CommandPaths == {<<>>, <<"to">>, <<"to", "markdown">>, <<"to", "notebook">>}

InitCli ==
    /\ opts \in CliOptions
    /\ subcommand \in CommandPaths
    /\ pc = "mkdir"
    /\ cmd = <<>>
    /\ result = None
    /\ ctx_obj = <<>>
    /\ echoed = <<>>
    /\ consumed = <<>>
    /\ failure = None
    /\ ComposeIdle
    /\ ReducerIdle

\* ctx.invoked_subcommand
invoked_subcommand == IF subcommand = <<>> THEN None ELSE subcommand[1]

\* __main__.py:88-92, the two run calls returning
MakeDir ==
    /\ pc = "mkdir"
    /\ pc' = "compose"
    /\ UNCHANGED <<opts, subcommand, cmd, result, ctx_obj, echoed, consumed, failure>>
    /\ UNCHANGED <<composeVars, reducerVars>>

\* __main__.py:90 or 92 raising
MakeDirFails ==
    /\ pc = "mkdir"
    /\ opts.mkdir
    /\ pc' = "failed"
    /\ failure' = "mkdir"
    /\ UNCHANGED <<opts, subcommand, cmd, result, ctx_obj, echoed, consumed>>
    /\ UNCHANGED <<composeVars, reducerVars>>

\* the --md-command pair added without the test of line 97
md_arguments_unguarded(o) ==
    <<"--md-command", format_hicrep(o.hicrep_md, o.hicrep_out, o.read, o.md_process)>>

\* __main__.py:97-99
md_arguments(o) ==
    IF o.hicrep_md # None
    THEN <<"--md-command",
           format_hicrep(o.hicrep_md, o.hicrep_out, o.read, o.md_process)>>
    ELSE <<>>

\* __main__.py:100-102
slt_arguments(o) ==
    IF o.hicrep_slt # None
    THEN <<"--slt-command",
           format_hicrep(o.hicrep_slt, o.hicrep_out, o.read, o.slt_process)>>
    ELSE <<>>

\* __main__.py:94-105
dispatcher_command(o) ==
    <<"versus-cli", o.row, o.col,
      format_hicrep(o.hicrep, o.hicrep_out, o.read, o.hicrep_process),
      "--caption-index", "2", "3">>
        \o md_arguments(o)
        \o slt_arguments(o)
        \o (IF o.dryrun THEN <<"--dryrun", "--echo-args">> ELSE <<>>)

BuildCommand ==
    /\ pc = "compose"
    /\ cmd' = dispatcher_command(opts)
    /\ pc' = "dispatch"
    /\ UNCHANGED <<opts, subcommand, result, ctx_obj, echoed, consumed, failure>>
    /\ UNCHANGED <<composeVars, reducerVars>>

\* __main__.py:107, run returning the dispatcher's standard output
Dispatch ==
    /\ pc = "dispatch"
    /\ \E out \in DispatcherOutputs : result' = out
    /\ pc' = "deliver"
    /\ UNCHANGED <<opts, subcommand, cmd, ctx_obj, echoed, consumed, failure>>
    /\ UNCHANGED <<composeVars, reducerVars>>

\* __main__.py:107, run raising
DispatchFails ==
    /\ pc = "dispatch"
    /\ pc' = "failed"
    /\ failure' = "versus-cli"
    /\ UNCHANGED <<opts, subcommand, cmd, result, ctx_obj, echoed, consumed>>
    /\ UNCHANGED <<composeVars, reducerVars>>

\* ctx.obj[key] = value
SetItem(obj, key, value) ==
    [k \in DOMAIN obj \cup {key} |-> IF k = key THEN value ELSE obj[k]]

\* the result echoed whether or not a subcommand follows, and never stored
deliver_echo_only(sub, res, obj, out) == <<obj, Append(out, res)>>

\* __main__.py:109-112: the new <<ctx.obj, echoed>>
deliver(sub, res, obj, out) ==
    IF sub = None
    THEN <<obj, Append(out, res)>>
    ELSE <<SetItem(obj, "RESULT", res), out>>

Deliver ==
    /\ pc = "deliver"
    /\ LET d == deliver(invoked_subcommand, result, ctx_obj, echoed)
       IN  ctx_obj' = d[1] /\ echoed' = d[2]
    /\ pc' = IF invoked_subcommand = None THEN "done" ELSE "to"
    /\ UNCHANGED <<opts, subcommand, cmd, result, consumed, failure>>
    /\ UNCHANGED <<composeVars, reducerVars>>

\* __main__.py:114-117: the group `to`; given no command it shows its help
\* and the invocation ends
InvokeTo ==
    /\ pc = "to"
    /\ pc' = IF Len(subcommand) < 2 THEN "done" ELSE subcommand[2]
    /\ UNCHANGED <<opts, subcommand, cmd, result, ctx_obj, echoed, consumed, failure>>
    /\ UNCHANGED <<composeVars, reducerVars>>

\* a command body reading ctx.obj['RESULT'] and handing it to `tool`
ReadResult(tool, next) ==
    IF "RESULT" \in DOMAIN ctx_obj
    THEN /\ consumed' = Append(consumed, [tool |-> tool, input |-> ctx_obj["RESULT"]])
         /\ \/ pc' = next /\ failure' = failure
            \/ pc' = "failed" /\ failure' = tool
    ELSE /\ consumed' = consumed
         /\ pc' = "failed"
         /\ failure' = "KeyError"

\* __main__.py:119-122
Markdown ==
    /\ pc = "markdown"
    /\ ReadResult("pandas-cli", "done")
    /\ UNCHANGED <<opts, subcommand, cmd, result, ctx_obj, echoed>>
    /\ UNCHANGED <<composeVars, reducerVars>>

\* __main__.py:129-136
Notebook ==
    /\ pc = "notebook"
    /\ ReadResult("pandas-cli", "visualize")
    /\ UNCHANGED <<opts, subcommand, cmd, result, ctx_obj, echoed>>
    /\ UNCHANGED <<composeVars, reducerVars>>

\* __main__.py:137-142
Visualize ==
    /\ pc = "visualize"
    /\ \/ pc' = "done" /\ failure' = failure
       \/ pc' = "failed" /\ failure' = "dataframe-vis-nb"
    /\ UNCHANGED <<opts, subcommand, cmd, result, ctx_obj, echoed, consumed>>
    /\ UNCHANGED <<composeVars, reducerVars>>

NextCli ==
    \/ MakeDir
    \/ MakeDirFails
    \/ BuildCommand
    \/ Dispatch
    \/ DispatchFails
    \/ Deliver
    \/ InvokeTo
    \/ Markdown
    \/ Notebook
    \/ Visualize

SpecCli == InitCli /\ [][NextCli]_vars

(***************************************************************************)
(* Claims about the cli callback, checked under SpecCli.                   *)
(***************************************************************************)
Built == pc \notin {"mkdir", "compose"} /\ ~(pc = "failed" /\ failure = "mkdir")

\* the arguments of cmd that follow the flag
ArgumentsAfter(flag) == {cmd[i + 1] : i \in {j \in 1..(Len(cmd) - 1) : cmd[j] = flag}}

Flags(flag) == {i \in 1..Len(cmd) : cmd[i] = flag}

\* C9: the dispatcher command line never holds an empty composed command:
\* --md-command is passed iff --hicrep-md is not None, --slt-command iff
\* --hicrep-slt is not None, and every command string handed to the dispatcher
\* is a non-empty string that format_hicrep composed.
C9_NoEmptyCommandDispatched ==
    Built =>
        LET commands == {cmd[4]} \cup ArgumentsAfter("--md-command")
                            \cup ArgumentsAfter("--slt-command")
        IN  /\ Cardinality(Flags("--md-command")) =
                   (IF opts.hicrep_md # None THEN 1 ELSE 0)
            /\ Cardinality(Flags("--slt-command")) =
                   (IF opts.hicrep_slt # None THEN 1 ELSE 0)
            /\ \A f \in Flags("--md-command") \cup Flags("--slt-command") :
                   f < Len(cmd)
            /\ \A c \in commands :
                   /\ c # ""
                   /\ StartsWith(c, "hicrep {1} {2} " \o opts.hicrep_out \o " ")
            /\ \A i \in 1..Len(cmd) : cmd[i] # ""

C9_Witness ==
    /\ Built /\ opts.hicrep_md = None /\ opts.hicrep_slt = ""
    /\ opts.hicrep = "" /\ ~opts.dryrun
    /\ Len(cmd) = 9 /\ cmd[8] = "--slt-command"
    /\ StartsWith(cmd[9], "hicrep {1} {2} ")

\* the group callback has run to its end
Delivered ==
    \/ pc \in {"done", "to", "markdown", "notebook", "visualize"}
    \/ pc = "failed" /\ failure \in {"pandas-cli", "dataframe-vis-nb", "KeyError"}

\* C10: in an invocation started with an empty context object, the
\* dispatcher's result is echoed exactly when no subcommand is invoked and
\* stored under RESULT exactly when one is; the bodies of `to markdown` and
\* `to notebook` read RESULT only once the callback has stored it, and when the
\* dispatcher fails nothing is echoed or stored and no subcommand body runs.
C10_ResultEchoedOrStored ==
    /\ Delivered =>
           /\ subcommand = <<>> => echoed = <<result>> /\ ctx_obj = <<>>
           /\ subcommand # <<>> =>
                  /\ echoed = <<>>
                  /\ DOMAIN ctx_obj = {"RESULT"}
                  /\ ctx_obj["RESULT"] = result
    /\ ~Delivered => echoed = <<>> /\ ctx_obj = <<>> /\ consumed = <<>>
    /\ consumed # <<>> =>
           /\ Len(subcommand) = 2
           /\ "RESULT" \in DOMAIN ctx_obj
           /\ \A i \in 1..Len(consumed) : consumed[i].input = result
    /\ failure # "KeyError"
    /\ failure = "versus-cli" =>
           /\ pc = "failed"
           /\ echoed = <<>> /\ ctx_obj = <<>> /\ consumed = <<>>
    /\ pc \in {"markdown", "notebook", "visualize"} => "RESULT" \in DOMAIN ctx_obj

C10_Witness ==
    /\ pc = "done" /\ subcommand = <<"to", "notebook">>
    /\ result = "result: 0.9"
    /\ ctx_obj = [RESULT |-> "result: 0.9"]
    /\ consumed = <<[tool |-> "pandas-cli", input |-> "result: 0.9"]>>
    /\ echoed = <<>>

=============================================================================
